---------------------------- MODULE Spec2Model ----------------------------
(***************************************************************************)
(* A model of src/http-client.js: the query encoder (makeQueryString), the *)
(* result unwrapper (sendResult), the parameter validator (checkParams),   *)
(* the three callers (publicCall, keyCall, privateCall) and the two order  *)
(* wrappers (order, futuresOrder).                                         *)
(*                                                                         *)
(* JavaScript strings are TLA+ strings.  A scalar is a record [t, s]: its  *)
(* type tag and its String() rendering.  An object is a sequence of        *)
(* [k, v] entries in insertion order; a reference that may be null or      *)
(* undefined is a record [t, m].  Strings are printable ASCII, numbers are *)
(* non-negative integers or NaN, and property names are identifiers (no    *)
(* integer-like names, which Object.keys would reorder).                   *)
(***************************************************************************)
EXTENDS Naturals, Sequences, FiniteSets, TLC

(***************************************************************************)
(* Bounds of the model.                                                    *)
(***************************************************************************)
\* Longest object (number of properties) handed to the pure functions.
MaxLen == 2
\* Number of method calls one client instance makes in a behaviour.
MaxCalls == 2

(***************************************************************************)
(* JavaScript values.                                                      *)
(***************************************************************************)
Str(s) == [t |-> "str", s |-> s]
Num(n) == [t |-> "num", s |-> ToString(n)]
NaN == [t |-> "num", s |-> "NaN"]
True == [t |-> "bool", s |-> "true"]
False == [t |-> "bool", s |-> "false"]
Null == [t |-> "null", s |-> "null"]
Undefined == [t |-> "undef", s |-> "undefined"]

\* ToBoolean: what !!v and the conditional operators test.
Truthy(v) ==
  CASE v.t = "str" -> v.s # ""
    [] v.t = "num" -> v.s \notin {"0", "NaN"}
    [] v.t = "bool" -> v.s = "true"
    [] v.t \in {"obj", "arr"} -> TRUE
    [] OTHER -> FALSE

Digits == {"0", "1", "2", "3", "4", "5", "6", "7", "8", "9"}

\* Whether ToNumber of a string is a number: the empty string is 0, a run of
\* digits is that number, anything else (letters, markup) is NaN.
IsNumericString(s) == \A i \in 1..Len(s) : SubSeq(s, i, i) \in Digits

\* The global isNaN(v): ToNumber(v) is NaN.  ToNumber(undefined) is NaN,
\* ToNumber(null) and ToNumber(false) are 0, ToNumber(true) is 1.
IsNaN(v) ==
  CASE v.t = "undef" -> TRUE
    [] v.t = "null" -> FALSE
    [] v.t = "bool" -> FALSE
    [] v.t = "num" -> v.s = "NaN"
    [] v.t = "obj" -> TRUE
    [] OTHER -> ~IsNumericString(v.s)

(***************************************************************************)
(* Objects: sequences of [k, v] entries, keys distinct, insertion order.   *)
(***************************************************************************)
Obj(m) == [t |-> "obj", m |-> m]
NoObj == [t |-> "undef", m |-> << >>]
NullObj == [t |-> "null", m |-> << >>]

Has(m, k) == \E i \in 1..Len(m) : m[i].k = k

\* m[k]: the property's value, undefined when there is none.
Get(m, k) ==
  IF Has(m, k) THEN m[CHOOSE i \in 1..Len(m) : m[i].k = k].v ELSE Undefined

\* m[k] = v: an existing property keeps its place, a new one goes last.
Put(m, k, v) ==
  IF Has(m, k)
  THEN [i \in 1..Len(m) |-> IF m[i].k = k THEN [k |-> k, v |-> v] ELSE m[i]]
  ELSE Append(m, [k |-> k, v |-> v])

\* delete m[k]
Delete(m, k) == SelectSeq(m, LAMBDA e : e.k # k)

RECURSIVE Spread(_, _)
\* { ...a, ...b }: b's properties assigned onto a copy of a, in b's order.
Spread(a, b) ==
  IF b = << >> THEN a ELSE Spread(Put(a, Head(b).k, Head(b).v), Tail(b))

(***************************************************************************)
(* encodeURIComponent                                                      *)
(***************************************************************************)
\* One character: letters, digits and the nine marks the standard leaves
\* unreserved stand for themselves, every other ASCII character is %XX.
EncodeChar(c) ==
  CASE c = " " -> "%20" [] c = "\"" -> "%22" [] c = "#" -> "%23"
    [] c = "$" -> "%24" [] c = "%" -> "%25" [] c = "&" -> "%26"
    [] c = "+" -> "%2B" [] c = "," -> "%2C" [] c = "/" -> "%2F"
    [] c = ":" -> "%3A" [] c = ";" -> "%3B" [] c = "<" -> "%3C"
    [] c = "=" -> "%3D" [] c = ">" -> "%3E" [] c = "?" -> "%3F"
    [] c = "@" -> "%40" [] c = "[" -> "%5B" [] c = "\\" -> "%5C"
    [] c = "]" -> "%5D" [] c = "^" -> "%5E"
    [] c = "{" -> "%7B" [] c = "|" -> "%7C" [] c = "}" -> "%7D"
    [] OTHER -> c

RECURSIVE EncodeRange(_, _, _)
\* The characters of s from index lo to index hi, each encoded.
EncodeRange(s, lo, hi) ==
  IF lo > hi THEN ""
  ELSE IF lo = hi THEN EncodeChar(SubSeq(s, lo, lo))
  ELSE LET mid == (lo + hi) \div 2
       IN EncodeRange(s, lo, mid) \o EncodeRange(s, mid + 1, hi)

EncodeURIComponent(s) == EncodeRange(s, 1, Len(s))

RECURSIVE Join(_, _)
\* Array.prototype.join
Join(parts, sep) ==
  IF parts = << >> THEN ""
  ELSE IF Len(parts) = 1 THEN parts[1]
  ELSE parts[1] \o sep \o Join(Tail(parts), sep)

(***************************************************************************)
(* makeQueryString (lines 16-22)                                           *)
(***************************************************************************)
\* A filter that drops only null and undefined and keeps 0, '' and false.
KeptEntries_NullishOnly(m) ==
  SelectSeq(m, LAMBDA e : e.v.t \notin {"null", "undef"})

\* .filter(k => !!q[k])
KeptEntries(m) == SelectSeq(m, LAMBDA e : Truthy(e.v))

\* .map(k => `${encodeURIComponent(k)}=${encodeURIComponent(q[k])}`)
EncodedPairs(m) ==
  [i \in 1..Len(m) |->
     EncodeURIComponent(m[i].k) \o "=" \o EncodeURIComponent(m[i].v.s)]

MakeQueryString(q) ==
  IF q.t = "obj" THEN "?" \o Join(EncodedPairs(KeptEntries(q.m)), "&") ELSE ""

\* String.prototype.substr(1)
Substr1(s) == SubSeq(s, 2, Len(s))

(***************************************************************************)
(* Errors and promise outcomes.  origin is the throw site, kept so that a  *)
(* property can tell the errors apart; the other fields are the properties *)
(* the code sets on the Error object.                                      *)
(***************************************************************************)
Err(origin, message) ==
  [origin |-> origin, message |-> message, hasCode |-> FALSE,
   code |-> Undefined, hasResponse |-> FALSE, responseStatus |-> 0,
   hasResponseText |-> FALSE, responseText |-> ""]

NoErr == Err("none", "")
NoValue == [v |-> Undefined, m |-> << >>]

Fulfilled(value) == [state |-> "fulfilled", value |-> value, err |-> NoErr]
Rejected(err) == [state |-> "rejected", value |-> NoValue, err |-> err]
Pending == [state |-> "pending", value |-> NoValue, err |-> NoErr]

(***************************************************************************)
(* JSON.parse, for texts without white space and without escapes: null,    *)
(* true, false, integers, strings, arrays and objects.  A parsed value is  *)
(* [v, m]: v its scalar view [t, s] and m the members of an object.        *)
(***************************************************************************)
Ch(s, i) == IF i >= 1 /\ i <= Len(s) THEN SubSeq(s, i, i) ELSE ""

StartsWith(s, i, lit) ==
  i + Len(lit) - 1 <= Len(s) /\ SubSeq(s, i, i + Len(lit) - 1) = lit

RECURSIVE ScanDigits(_, _)
\* The index after the run of digits that starts at i.
ScanDigits(s, i) == IF Ch(s, i) \in Digits THEN ScanDigits(s, i + 1) ELSE i

RECURSIVE ScanString(_, _)
\* The index of the quote that closes a string whose text starts at i; 0 if none.
ScanString(s, i) ==
  IF i > Len(s) THEN 0
  ELSE IF Ch(s, i) = "\"" THEN i
  ELSE ScanString(s, i + 1)

ParseFail == [ok |-> FALSE, v |-> Undefined, m |-> << >>, i |-> 0]
Parsed(v, m, i) == [ok |-> TRUE, v |-> v, m |-> m, i |-> i]

\* String(v) of an array element inside Array.prototype.join.
ElementText(v) == IF v.t \in {"null", "undef"} THEN "" ELSE v.s

RECURSIVE ParseValue(_, _)
RECURSIVE ParseElements(_, _, _)
RECURSIVE ParseMembers(_, _, _)

ParseNumber(s, i) ==
  LET d == IF Ch(s, i) = "-" THEN i + 1 ELSE i
      e == ScanDigits(s, d)
  IN IF e = d \/ (Ch(s, d) = "0" /\ e > d + 1) THEN ParseFail
     ELSE Parsed([t |-> "num", s |-> SubSeq(s, i, e - 1)], << >>, e)

ParseString(s, i) ==
  LET j == ScanString(s, i + 1)
  IN IF j = 0 THEN ParseFail
     ELSE Parsed(Str(SubSeq(s, i + 1, j - 1)), << >>, j + 1)

ParseValue(s, i) ==
  CASE StartsWith(s, i, "null") -> Parsed(Null, << >>, i + 4)
    [] StartsWith(s, i, "true") -> Parsed(True, << >>, i + 4)
    [] StartsWith(s, i, "false") -> Parsed(False, << >>, i + 5)
    [] Ch(s, i) = "\"" -> ParseString(s, i)
    [] Ch(s, i) = "-" \/ Ch(s, i) \in Digits -> ParseNumber(s, i)
    [] Ch(s, i) = "[" ->
         IF Ch(s, i + 1) = "]"
         THEN Parsed([t |-> "arr", s |-> ""], << >>, i + 2)
         ELSE ParseElements(s, i + 1, << >>)
    [] Ch(s, i) = "{" ->
         IF Ch(s, i + 1) = "}"
         THEN Parsed([t |-> "obj", s |-> "[object Object]"], << >>, i + 2)
         ELSE ParseMembers(s, i + 1, << >>)
    [] OTHER -> ParseFail

\* The elements of an array after "[" or ",": acc holds their texts.
ParseElements(s, i, acc) ==
  LET r == ParseValue(s, i)
  IN IF ~r.ok THEN ParseFail
     ELSE LET texts == Append(acc, ElementText(r.v))
          IN CASE Ch(s, r.i) = "," -> ParseElements(s, r.i + 1, texts)
               [] Ch(s, r.i) = "]" ->
                    Parsed([t |-> "arr", s |-> Join(texts, ",")], << >>, r.i + 1)
               [] OTHER -> ParseFail

\* The members of an object after "{" or ",": a repeated name keeps its
\* place and takes the later value.
ParseMembers(s, i, acc) ==
  IF Ch(s, i) # "\"" THEN ParseFail
  ELSE LET k == ParseString(s, i)
       IN IF ~k.ok \/ Ch(s, k.i) # ":" THEN ParseFail
          ELSE LET r == ParseValue(s, k.i + 1)
               IN IF ~r.ok THEN ParseFail
                  ELSE LET m == Put(acc, k.v.s, r.v)
                       IN CASE Ch(s, r.i) = "," -> ParseMembers(s, r.i + 1, m)
                            [] Ch(s, r.i) = "}" ->
                                 Parsed([t |-> "obj", s |-> "[object Object]"],
                                        m, r.i + 1)
                            [] OTHER -> ParseFail

\* JSON.parse(text): the whole text must be one value.
JsonParse(text) ==
  LET r == ParseValue(text, 1)
  IN IF r.ok /\ r.i = Len(text) + 1 THEN r ELSE ParseFail

(***************************************************************************)
(* sendResult (lines 27-53)                                                *)
(***************************************************************************)
\* A settled fetch: a Response (status, statusText, body) or a rejection.
Response(status, statusText, body) ==
  [kind |-> "response", status |-> status, statusText |-> statusText,
   body |-> body]
NetworkFailure ==
  [kind |-> "reject", status |-> 0, statusText |-> "", body |-> ""]

\* Response.ok
ResOk(res) == res.status >= 200 /\ res.status <= 299

\* json.msg and json.code: a property read, undefined on a primitive or an
\* array; on null the read throws a TypeError.
Prop(json, name) == IF json.v.t = "obj" THEN Get(json.m, name) ELSE Undefined

\* The try block (lines 41-44), for a json whose property reads succeed.
ApiError(res, json) ==
  LET msg == Prop(json, "msg")
  IN [Err("sendResult.try",
          IF Truthy(msg) THEN msg.s
          ELSE ToString(res.status) \o " " \o res.statusText)
      EXCEPT !.hasCode = TRUE, !.code = Prop(json, "code")]

\* The catch block (lines 46-49).
ProxyError(res, text) ==
  [Err("sendResult.catch",
       ToString(res.status) \o " " \o res.statusText \o " " \o text)
   EXCEPT !.hasResponse = TRUE, !.responseStatus = res.status,
          !.hasResponseText = TRUE, !.responseText = text]

\* Whether the try block throws: JSON.parse rejects the text, or the read
\* of json.msg is a read on null.
TryThrows(text) ==
  LET json == JsonParse(text) IN ~json.ok \/ json.v.t = "null"

\* The error thrown for a response whose ok flag is false.
FailureError(res) ==
  IF TryThrows(res.body) THEN ProxyError(res, res.body)
  ELSE ApiError(res, JsonParse(res.body))

SendResult(res) ==
  IF res.kind = "reject" THEN Rejected(Err("fetch", "request failed"))
  ELSE IF ResOk(res)
  THEN LET json == JsonParse(res.body)
       IN IF json.ok THEN Fulfilled([v |-> json.v, m |-> json.m])
          ELSE Rejected(Err("res.json", "Unexpected token"))
  ELSE Rejected(FailureError(res))

(***************************************************************************)
(* checkParams (lines 58-70)                                               *)
(***************************************************************************)
\* The test of line 64.
FieldMissing(v) == ~Truthy(v) /\ IsNaN(v)

\* What a synchronous call does: return a value or throw.
Returned == [threw |-> FALSE, err |-> NoErr]
Threw(err) == [threw |-> TRUE, err |-> err]

CheckParams(name, payload, requires) ==
  IF payload.t # "obj"
  THEN Threw(Err("checkParams", "You need to pass a payload object."))
  ELSE LET bad == {i \in 1..Len(requires) :
                     FieldMissing(Get(payload.m, requires[i]))}
       IN IF bad = {} THEN Returned
          ELSE LET first == CHOOSE i \in bad : \A j \in bad : i <= j
               IN Threw(Err("checkParams",
                            "Method " \o name \o " requires "
                              \o requires[first] \o " parameter."))

(***************************************************************************)
(* The client (lines 272-280): credentials, clock and the two markets.     *)
(***************************************************************************)
BASE == "https://api.binance.com"
FUTURE_BASE == "https://fapi.binance.com"
API_PATH_BASE == "api"
FUTURES_API_PATH_BASE == "fapi"

Spot == [base |-> BASE, apiPathBase |-> API_PATH_BASE]
Futures == [base |-> FUTURE_BASE, apiPathBase |-> FUTURES_API_PATH_BASE]

E(k, v) == [k |-> k, v |-> v]

VARIABLES
  opts,      \* the options of the client: apiKey, apiSecret
  clock,     \* what getTime() returns
  payload,   \* the properties of the payload object the caller holds
  given,     \* payload as the caller built it, before any call
  calls,     \* the calls made so far, in the order they were made
  fnArg,     \* the arguments of a pure function under test
  fnRet      \* what it returned or threw

vars == <<opts, clock, payload, given, calls, fnArg, fnRet>>

(***************************************************************************)
(* A call: the closure of one method invocation and its promise.           *)
(*   pc        thrown | awaitTime | haveTime | awaitMain | settled         *)
(*   dataRef   what privateCall's data refers to: the caller's object, an  *)
(*             object of the call's own (own), or null                     *)
(*   passed    the payload argument as it was when the call was made       *)
(*   reqs      the fetches the call issued; ev its steps in order          *)
(***************************************************************************)
NoResponse == [kind |-> "none", status |-> 0, statusText |-> "", body |-> ""]

NewCall(method, arg, heap) ==
  [method |-> method, arg |-> arg,
   passed |-> IF arg = "shared" THEN Obj(heap) ELSE NoObj,
   timeRes |-> NoResponse, env |-> Spot, path |-> "", verb |-> "GET",
   noData |-> FALSE, noExtra |-> FALSE, dataRef |-> "null", own |-> << >>,
   hadFlag |-> FALSE, pc |-> "start", viaServer |-> FALSE,
   clockRead |-> FALSE, serverTime |-> Undefined, timestamp |-> Undefined,
   signed |-> "", signature |-> "", reqs |-> << >>, ev |-> << >>,
   validated |-> NoObj, requires |-> << >>, outcome |-> Pending]

\* A throw out of the method call itself: no promise is returned.
Thrown(c, err) == [c EXCEPT !.pc = "thrown", !.outcome = Rejected(err)]

\* The object a reference stands for.
Deref(ref, own, heap) ==
  CASE ref = "caller" -> Obj(heap)
    [] ref = "own" -> Obj(own)
    [] OTHER -> NullObj

Request(purpose, url, verb, apiKey) ==
  [purpose |-> purpose, url |-> url, verb |-> verb, apiKey |-> apiKey]

(***************************************************************************)
(* publicCall (lines 81-95)                                                *)
(***************************************************************************)
PublicUrl(env, path, data) ==
  env.base \o "/" \o env.apiPathBase \o path \o MakeQueryString(data)

\* The fetch of line 89; sendResult settles it later.
PublicCall(c, purpose, env, path, data, verb, apiKey) ==
  [c EXCEPT !.reqs = Append(@, Request(purpose, PublicUrl(env, path, data),
                                       verb, apiKey)),
            !.ev = Append(@, "fetch:" \o purpose),
            !.pc = IF purpose = "time" THEN "awaitTime" ELSE "awaitMain"]

(***************************************************************************)
(* keyCall (lines 106-125)                                                 *)
(***************************************************************************)
\* The key is checked only after the request has gone out.
KeyCall_CheckAfterFetch(c, o, env, path, data, verb) ==
  LET sent == PublicCall(c, "main", env, path, data, verb, o.apiKey.s)
  IN IF ~Truthy(o.apiKey)
     THEN Thrown(sent, Err("keyCall",
                           "You need to pass an API key to make this call."))
     ELSE sent

KeyCall(c, o, env, path, data, verb) ==
  IF ~Truthy(o.apiKey)
  THEN Thrown(c, Err("keyCall",
                     "You need to pass an API key to make this call."))
  ELSE PublicCall(c, "main", env, path, data, verb, o.apiKey.s)

(***************************************************************************)
(* privateCall (lines 136-177)                                             *)
(***************************************************************************)
\* The flag is read under another name.
UsesServerTime_WrongFlag(data) ==
  data.t = "obj" /\ Truthy(Get(data.m, "serverTime"))

\* data && data.useServerTime (line 148)
UsesServerTime(data) ==
  data.t = "obj" /\ Truthy(Get(data.m, "useServerTime"))

\* crypto.createHmac('sha256', secret).update(msg).digest('hex'): the digest
\* is a function of the secret and the message, taken to be one-to-one.
Hmac(secret, msg) == "hmac(" \o secret \o ")(" \o msg \o ")"

\* makeQueryString({ ...data, timestamp }).substr(1) (line 158)
SignedString(data, timestamp) ==
  Substr1(MakeQueryString(Obj(Put(data.m, "timestamp", timestamp))))

\* noExtra ? data : { ...data, timestamp, signature } (line 161)
NewData(data, noExtra, timestamp, signature) ==
  IF noExtra THEN data
  ELSE Obj(Put(Put(data.m, "timestamp", timestamp),
               "signature", Str(signature)))

\* String.prototype.includes
Includes(s, sub) == \E i \in 1..Len(s) : StartsWith(s, i, sub)

\* The template of lines 165-167.
PrivateUrl(env, path, noData, newData) ==
  env.base
    \o (IF Includes(path, "/wapi") \/ Includes(path, "/sapi") THEN ""
        ELSE "/" \o env.apiPathBase)
    \o path
    \o (IF noData THEN "" ELSE MakeQueryString(newData))

\* The synchronous part (lines 144-151): the credentials check, then either
\* the fetch of the server time or a read of the clock.
\* An omitted data (ref "undef") takes the default {} of line 138.
PrivateCall(c0, o, now, heap, env, path, ref0, own0, verb, noData, noExtra) ==
  LET ref == IF ref0 = "undef" THEN "own" ELSE ref0
      own == IF ref0 = "undef" THEN << >> ELSE own0
      data == Deref(ref, own, heap)
      c == [c0 EXCEPT !.env = env, !.path = path, !.verb = verb,
                      !.noData = noData, !.noExtra = noExtra,
                      !.dataRef = ref, !.own = own,
                      !.hadFlag = (data.t = "obj"
                                   /\ Truthy(Get(data.m, "useServerTime")))]
  IN IF ~Truthy(o.apiKey) \/ ~Truthy(o.apiSecret)
     THEN Thrown(c, Err("privateCall",
            "You need to pass an API key and secret to make authenticated calls."))
     ELSE IF UsesServerTime(data)
     THEN [PublicCall(c, "time", env, "/v1/time", NoObj, "GET", "")
           EXCEPT !.viaServer = TRUE]
     ELSE [c EXCEPT !.clockRead = TRUE, !.timestamp = now,
                    !.ev = Append(@, "getTime"), !.pc = "haveTime"]

\* A failed time fetch is caught and the local clock read in its place.
TimeSettled_ClockFallback(c, now, res) ==
  LET r == SendResult(res)
  IN IF r.state = "rejected" \/ r.value.v.t = "null"
     THEN [c EXCEPT !.pc = "haveTime", !.timeRes = res, !.clockRead = TRUE,
                    !.timestamp = now,
                    !.ev = @ \o <<"time:failed", "getTime">>]
     ELSE [c EXCEPT !.pc = "haveTime", !.timeRes = res,
                    !.serverTime = Prop(r.value, "serverTime"),
                    !.timestamp = Prop(r.value, "serverTime"),
                    !.ev = Append(@, "time:ok")]

\* The time fetch settles: sendResult, then r => r.serverTime (line 149).
\* A rejection skips the callback of line 151 and settles the call.
TimeSettled(c, now, res) ==
  LET r == SendResult(res)
  IN IF r.state = "rejected"
     THEN [c EXCEPT !.pc = "settled", !.outcome = r, !.timeRes = res,
                    !.ev = Append(@, "time:failed")]
     ELSE IF r.value.v.t = "null"
     THEN [c EXCEPT !.pc = "settled", !.timeRes = res,
                    !.outcome = Rejected(Err("r.serverTime",
                                   "Cannot read properties of null")),
                    !.ev = Append(@, "time:failed")]
     ELSE [c EXCEPT !.pc = "haveTime", !.timeRes = res,
                    !.serverTime = Prop(r.value, "serverTime"),
                    !.timestamp = Prop(r.value, "serverTime"),
                    !.ev = Append(@, "time:ok")]

\* The callback of lines 151-176: delete data.useServerTime, sign, fetch.
\* The result is the call and the caller's object after it.
SignAndSend(c, o, heap) ==
  LET data0 == Deref(c.dataRef, c.own, heap)
      data == IF data0.t = "obj"
              THEN Obj(Delete(data0.m, "useServerTime")) ELSE data0
      signed == SignedString(data, c.timestamp)
      signature == Hmac(o.apiSecret.s, signed)
      newData == NewData(data, c.noExtra, c.timestamp, signature)
      url == PrivateUrl(c.env, c.path, c.noData, newData)
  IN [call |-> [c EXCEPT !.own = IF c.dataRef = "own" THEN data.m ELSE @,
                         !.signed = signed, !.signature = signature,
                         !.reqs = Append(@, Request("main", url, c.verb,
                                                    o.apiKey.s)),
                         !.ev = @ \o <<"sign", "fetch:main">>,
                         !.pc = "awaitMain"],
      heap |-> IF c.dataRef = "caller" THEN data.m ELSE heap]

\* The main fetch settles (sendResult, lines 27-53).
MainSettled(c, res) ==
  [c EXCEPT !.pc = "settled", !.outcome = SendResult(res),
            !.ev = Append(@, "main:settled")]

(***************************************************************************)
(* order (lines 205-212) and futuresOrder (lines 243-267)                  *)
(***************************************************************************)
\* The payload parameter: the caller's object, or the default {} when the
\* caller passes none.
Param(arg, heap) == IF arg = "shared" THEN heap ELSE << >>

GTC == <<E("timeInForce", Str("GTC"))>>

\* ['LIMIT', 'STOP_LOSS_LIMIT', 'TAKE_PROFIT_LIMIT'].includes(payload.type)
\*   || !payload.type
OrderTakesGTC(type) ==
  type \in {Str("LIMIT"), Str("STOP_LOSS_LIMIT"), Str("TAKE_PROFIT_LIMIT")}
    \/ ~Truthy(type)

Order(c0, o, now, heap, arg, url) ==
  LET pl == Param(arg, heap)
      newPayload == IF OrderTakesGTC(Get(pl, "type")) THEN Spread(GTC, pl)
                    ELSE pl
      requires == <<"symbol", "side", "quantity">>
      chk == CheckParams("order", Obj(newPayload), requires)
      c == [c0 EXCEPT !.validated = Obj(newPayload), !.requires = requires]
  IN IF chk.threw THEN Thrown(c, chk.err)
     ELSE PrivateCall(c, o, now, heap, Spot, url, "own",
                      Spread(<<E("type", Str("LIMIT"))>>, newPayload),
                      "POST", FALSE, FALSE)

\* ['LIMIT', 'STOP', 'TAKE_PROFIT'].includes(payload.type) || !payload.type
FuturesTakesGTC(type) ==
  type \in {Str("LIMIT"), Str("STOP"), Str("TAKE_PROFIT")} \/ ~Truthy(type)

\* The list of lines 256-264, from payload.type as line 249 left it.
FuturesRequires(type) ==
  <<"symbol", "side", "type", "quantity">>
    \o (IF type = Str("LIMIT") THEN <<"price", "timeInForce">> ELSE << >>)
    \o (IF type \in {Str("STOP"), Str("TAKE_PROFIT")}
        THEN <<"price", "stopPrice">> ELSE << >>)
    \o (IF type \in {Str("STOP_MARKET"), Str("TAKE_PROFIT_MARKET")}
        THEN <<"stopPrice">> ELSE << >>)

\* The payload futuresOrder validates and sends (lines 244-247): a copy
\* taken before line 249 assigns payload.type, or payload itself.
FuturesNewPayload(pl) ==
  IF FuturesTakesGTC(Get(pl, "type")) THEN Spread(GTC, pl) ELSE pl

\* if (!payload.type) payload.type = 'LIMIT' (line 249)
FuturesDefaultType(pl) ==
  IF ~Truthy(Get(pl, "type")) THEN Put(pl, "type", Str("LIMIT")) ELSE pl

\* The result is the call and the caller's object after it.
FuturesOrder(c0, o, now, heap, arg, url) ==
  LET pl0 == Param(arg, heap)
      copied == FuturesTakesGTC(Get(pl0, "type"))
      pl == FuturesDefaultType(pl0)
      newPayload == IF copied THEN FuturesNewPayload(pl0) ELSE pl
      after == IF arg = "shared" THEN pl ELSE heap
      type == Get(pl, "type")
      requires == FuturesRequires(type)
      chk == CheckParams("futuresOrder", Obj(newPayload), requires)
      c == [c0 EXCEPT !.validated = Obj(newPayload), !.requires = requires]
      ref == IF copied \/ arg # "shared" THEN "own" ELSE "caller"
  IN IF type = Str("MARKET") /\ Truthy(Get(pl, "timeInForce"))
     THEN [call |-> Thrown(c0, Err("futuresOrder",
                      "timeInForce parameter cannot be send with type MARKET")),
           heap |-> after]
     ELSE IF chk.threw THEN [call |-> Thrown(c, chk.err), heap |-> after]
     ELSE [call |-> PrivateCall(c, o, now, after, Futures, url, ref,
                                newPayload, "POST", FALSE, FALSE),
           heap |-> after]

\* tradesHistory (line 289): checkParams(...) && kCall(...)
TradesHistory(c0, o, heap, arg) ==
  LET pl == IF arg = "shared" THEN Obj(heap) ELSE NoObj
      requires == <<"symbol">>
      chk == CheckParams("tradesHistory", pl, requires)
      c == [c0 EXCEPT !.validated = pl, !.requires = requires]
  IN IF chk.threw THEN Thrown(c, chk.err)
     ELSE KeyCall(c, o, Spot, "/v1/historicalTrades", pl, "GET")

(***************************************************************************)
(* The inputs of the model.                                                *)
(***************************************************************************)
\* Whether the caller passes its payload object or no argument.
Args == {"shared", "none"}

\* The options a client is built with.
Opts ==
  {[apiKey |-> Str("KEY"), apiSecret |-> Str("SECRET")],
   [apiKey |-> Str("KEY"), apiSecret |-> Undefined],
   [apiKey |-> Undefined, apiSecret |-> Undefined]}

\* Readings of the clock function, and the times the server reports.
Clocks == {Num(1700)}
ServerTimes == {Num(1800)}

BTC == E("symbol", Str("BTCUSDT"))
BUY == E("side", Str("BUY"))

\* The payload objects a caller holds.
Payloads ==
  { <<BTC, BUY, E("quantity", Num(1))>>,
    <<BTC, BUY, E("quantity", Num(1)), E("price", Num(9))>>,
    <<BTC, BUY, E("type", Str("MARKET")), E("quantity", Num(1)),
      E("useServerTime", True)>>,
    <<E("recvWindow", Num(50)), E("useServerTime", True),
      E("timestamp", Num(5))>>,
    <<E("signature", Str("ab")), BTC>> }

\* What the server answers to the time request and to the main request.
TimeResponses ==
  {NetworkFailure}
    \cup {Response(200, "OK", "{\"serverTime\":" \o t.s \o "}") :
            t \in ServerTimes}
    \cup {Response(400, "Bad Request",
                   "{\"code\":-1003,\"msg\":\"Too many requests.\"}"),
          Response(502, "Bad Gateway", "<html>502 Bad Gateway</html>")}

MainResponses ==
  {Response(200, "OK", "{\"orderId\":1}"),
   Response(400, "Bad Request", "{\"code\":-1121,\"msg\":\"Invalid symbol.\"}")}

\* No pure function is under test.
FnIdle == [fn |-> "none"]

(***************************************************************************)
(* The client at work: the caller makes calls and the pending fetches      *)
(* settle, in any order.  A method call runs to its return or throw in one *)
(* step; the callback of a promise runs in a later step.                   *)
(***************************************************************************)
Init ==
  /\ opts \in Opts
  /\ clock \in Clocks
  /\ payload \in Payloads
  /\ given = payload
  /\ calls = << >>
  /\ fnArg = FnIdle
  /\ fnRet = FnIdle

Quiet == UNCHANGED <<opts, clock, given, fnArg, fnRet>>

\* accountInfo (line 312): privCall with the caller's payload as data.
CallAccountInfo ==
  /\ Len(calls) < MaxCalls
  /\ \E arg \in Args :
       calls' = Append(calls,
                  PrivateCall(NewCall("accountInfo", arg, payload), opts, clock,
                              payload, Spot, "/v3/account",
                              IF arg = "shared" THEN "caller" ELSE "undef",
                              << >>, "GET", FALSE, FALSE))
  /\ UNCHANGED payload
  /\ Quiet

\* getDataStream (line 323): data null, noData true.
CallGetDataStream ==
  /\ Len(calls) < MaxCalls
  /\ calls' = Append(calls,
                PrivateCall(NewCall("getDataStream", "none", payload), opts, clock,
                            payload, Spot, "/v1/userDataStream", "null",
                            << >>, "POST", TRUE, FALSE))
  /\ UNCHANGED payload
  /\ Quiet

\* order (line 302)
CallOrder ==
  /\ Len(calls) < MaxCalls
  /\ \E arg \in Args :
       calls' = Append(calls, Order(NewCall("order", arg, payload), opts, clock,
                                    payload, arg, "/v3/order"))
  /\ UNCHANGED payload
  /\ Quiet

\* futuresOrder (line 372)
CallFuturesOrder ==
  /\ Len(calls) < MaxCalls
  /\ \E arg \in Args :
       LET r == FuturesOrder(NewCall("futuresOrder", arg, payload), opts, clock,
                             payload, arg, "/v1/order")
       IN /\ calls' = Append(calls, r.call)
          /\ payload' = r.heap
  /\ Quiet

\* tradesHistory (line 289)
CallTradesHistory ==
  /\ Len(calls) < MaxCalls
  /\ \E arg \in Args :
       calls' = Append(calls, TradesHistory(NewCall("tradesHistory", arg, payload),
                                            opts, payload, arg))
  /\ UNCHANGED payload
  /\ Quiet

\* The response to a call's time request arrives.
TimeSettles ==
  /\ \E i \in 1..Len(calls) : \E res \in TimeResponses :
       /\ calls[i].pc = "awaitTime"
       /\ calls' = [calls EXCEPT ![i] = TimeSettled(calls[i], clock, res)]
  /\ UNCHANGED payload
  /\ Quiet

\* The callback of line 151 runs for a call that has its timestamp.
ThenSignAndSend ==
  /\ \E i \in 1..Len(calls) :
       /\ calls[i].pc = "haveTime"
       /\ LET r == SignAndSend(calls[i], opts, payload)
          IN /\ calls' = [calls EXCEPT ![i] = r.call]
             /\ payload' = r.heap
  /\ Quiet

\* The response to a call's main request arrives.
MainSettles ==
  /\ \E i \in 1..Len(calls) : \E res \in MainResponses :
       /\ calls[i].pc = "awaitMain"
       /\ calls' = [calls EXCEPT ![i] = MainSettled(calls[i], res)]
  /\ UNCHANGED payload
  /\ Quiet

Next ==
  \/ CallAccountInfo
  \/ CallGetDataStream
  \/ CallOrder
  \/ CallFuturesOrder
  \/ CallTradesHistory
  \/ TimeSettles
  \/ ThenSignAndSend
  \/ MainSettles

Spec == Init /\ [][Next]_vars

(***************************************************************************)
(* The pure functions on their own: SpecFn draws the arguments of one of   *)
(* makeQueryString, checkParams and sendResult and applies it.             *)
(***************************************************************************)
FnKeys == {"symbol", "limit", "a b"}
FnValues ==
  {Str(""), Str("BTCUSDT"), Str("x&y=z"), Num(0), Num(5), NaN, True, False,
   Null, Undefined}

RECURSIVE ObjectsOf(_)
\* The objects of at most n properties over FnKeys and FnValues.
ObjectsOf(n) ==
  IF n = 0 THEN {<< >>}
  ELSE ObjectsOf(n - 1)
         \cup UNION {{Append(m, E(k, v)) : k \in {x \in FnKeys : ~Has(m, x)},
                                          v \in FnValues} :
                       m \in {x \in ObjectsOf(n - 1) : Len(x) = n - 1}}

\* An object, null or undefined.
FnPayloads == {Obj(m) : m \in ObjectsOf(MaxLen)} \cup {NoObj, NullObj}

FnRequires ==
  {<< >>, <<"symbol">>, <<"limit">>, <<"symbol", "limit">>,
   <<"limit", "symbol">>}

FnBodies ==
  {"{\"code\":-1121,\"msg\":\"Invalid symbol.\"}", "{\"code\":-1}", "{}",
   "{\"msg\":\"busy\"}", "null", "5", "\"down\"", "[]", "[1,null]", "true",
   "<html>502 Bad Gateway</html>", "", "{\"msg\":", "{\"orderId\":1}"}

FnResponses ==
  {NetworkFailure}
    \cup {Response(st[1], st[2], b) :
            st \in {<<200, "OK">>, <<400, "Bad Request">>,
                    <<502, "Bad Gateway">>},
            b \in FnBodies}

FnCall(fn, q, name, requires, res) ==
  [fn |-> fn, q |-> q, name |-> name, requires |-> requires, res |-> res]

FnInputs ==
  {FnCall("makeQueryString", q, "", << >>, NoResponse) : q \in FnPayloads}
    \cup {FnCall("checkParams", q, "order", r, NoResponse) :
            q \in FnPayloads, r \in FnRequires}
    \cup {FnCall("sendResult", NoObj, "", << >>, res) : res \in FnResponses}

FnResult(fn, str, call, outcome) ==
  [fn |-> fn, str |-> str, call |-> call, outcome |-> outcome]

InitFn ==
  /\ opts \in {o \in Opts : Truthy(o.apiSecret)}
  /\ clock = Num(1700)
  /\ payload = << >>
  /\ given = << >>
  /\ calls = << >>
  /\ fnArg \in FnInputs
  /\ fnRet = FnIdle

FnDone(ret) ==
  /\ fnRet = FnIdle
  /\ fnRet' = ret
  /\ UNCHANGED <<opts, clock, payload, given, calls, fnArg>>

ApplyMakeQueryString ==
  /\ fnArg.fn = "makeQueryString"
  /\ FnDone(FnResult("makeQueryString", MakeQueryString(fnArg.q), Returned,
                     Pending))

ApplyCheckParams ==
  /\ fnArg.fn = "checkParams"
  /\ FnDone(FnResult("checkParams", "",
                     CheckParams(fnArg.name, fnArg.q, fnArg.requires),
                     Pending))

ApplySendResult ==
  /\ fnArg.fn = "sendResult"
  /\ FnDone(FnResult("sendResult", "", Returned, SendResult(fnArg.res)))

NextFn == ApplyMakeQueryString \/ ApplyCheckParams \/ ApplySendResult

SpecFn == InitFn /\ [][NextFn]_vars

(***************************************************************************)
(* Reading a URL back: what a server would see.                            *)
(***************************************************************************)
\* The first index from i at which character c stands in s; 0 if none.
IndexOf(s, c, i) ==
  LET hits == {j \in i..Len(s) : SubSeq(s, j, j) = c}
  IN IF hits = {} THEN 0 ELSE CHOOSE j \in hits : \A k \in hits : j <= k

RECURSIVE SplitFrom(_, _, _)
\* The text of s from index i on, cut at every c.
SplitFrom(s, c, i) ==
  LET j == IndexOf(s, c, i)
  IN IF j = 0 THEN <<SubSeq(s, i, Len(s))>>
     ELSE <<SubSeq(s, i, j - 1)>> \o SplitFrom(s, c, j + 1)

\* The non-empty text s cut at every c.
SplitOn(s, c) == SplitFrom(s, c, 1)

\* The pairs of a query string (without its "?").
PairsOf(query) == IF query = "" THEN << >> ELSE SplitOn(query, "&")

\* The text after the first "?" of a URL; none when it has no "?".
QueryOf(url) ==
  LET i == IndexOf(url, "?", 1)
  IN IF i = 0 THEN "" ELSE SubSeq(url, i + 1, Len(url))

HasQuery(url) == IndexOf(url, "?", 1) # 0

PairKey(pair) ==
  LET i == IndexOf(pair, "=", 1)
  IN IF i = 0 THEN pair ELSE SubSeq(pair, 1, i - 1)

PairValue(pair) ==
  LET i == IndexOf(pair, "=", 1)
  IN IF i = 0 THEN "" ELSE SubSeq(pair, i + 1, Len(pair))

\* The character a %XX escape stands for.
Unescape(hex) ==
  CASE hex = "20" -> " " [] hex = "22" -> "\"" [] hex = "26" -> "&"
    [] hex = "3D" -> "=" [] hex = "3F" -> "?" [] hex = "25" -> "%"
    [] hex = "2F" -> "/" [] hex = "2B" -> "+" [] hex = "2C" -> ","
    [] hex = "3A" -> ":" [] hex = "7B" -> "{" [] hex = "7D" -> "}"
    [] OTHER -> "%" \o hex

\* The text a percent-encoded text stands for: each %XX is unescaped.
PercentDecode(s) ==
  LET segs == SplitOn(s, "%")
      Decoded(seg) ==
        IF Len(seg) >= 2
        THEN Unescape(SubSeq(seg, 1, 2)) \o SubSeq(seg, 3, Len(seg))
        ELSE "%" \o seg
  IN segs[1] \o Join([k \in 1..(Len(segs) - 1) |-> Decoded(segs[k + 1])], "")

\* The values JavaScript takes for false in a condition.
Falsy == {Str(""), Num(0), NaN, Null, Undefined, False}

\* The main request of a call, once issued.
HasMain(c) == \E i \in 1..Len(c.reqs) : c.reqs[i].purpose = "main"
MainOf(c) == c.reqs[CHOOSE i \in 1..Len(c.reqs) : c.reqs[i].purpose = "main"]

\* The place of a step in a call's history; 0 when it has not happened.
StepAt(c, step) ==
  IF \E i \in 1..Len(c.ev) : c.ev[i] = step
  THEN CHOOSE i \in 1..Len(c.ev) : c.ev[i] = step
  ELSE 0

RequiresMessage(name, r) ==
  "Method " \o name \o " requires " \o r \o " parameter."

(***************************************************************************)
(* C1: checkParams fails, naming the method and the field, when a          *)
(* required field is an empty string, null, undefined (absent) or false,   *)
(* and returns true when every required field is a number, 0 included.     *)
(***************************************************************************)
C1_MissingValues == {Str(""), Null, Undefined, False}

C1_CheckParamsPresence ==
  (fnRet # FnIdle /\ fnArg.fn = "checkParams" /\ fnArg.q.t = "obj") =>
     LET val(i) == Get(fnArg.q.m, fnArg.requires[i])
         IsNumber(v) == v.t = "num" /\ v # NaN
         missing == {i \in 1..Len(fnArg.requires) : val(i) \in C1_MissingValues}
     IN (\A i \in 1..Len(fnArg.requires) :
           val(i) \in C1_MissingValues \/ IsNumber(val(i))) =>
          IF missing = {} THEN ~fnRet.call.threw
          ELSE /\ fnRet.call.threw
               /\ \E i \in missing :
                    fnRet.call.err.message
                      = RequiresMessage(fnArg.name, fnArg.requires[i])

(***************************************************************************)
(* C5: on a failure status sendResult rejects with an API Error (message   *)
(* the parsed msg, else "<status> <statusText>"; the parsed code attached; *)
(* no raw response or body attached) whenever the body is JSON-parseable,  *)
(* whatever JSON value it is, and with a Transport Error (message          *)
(* "<status> <statusText> <body>", raw response and body attached) when    *)
(* it is not.                                                              *)
(***************************************************************************)
C5_OneRulePerBody ==
  (fnRet # FnIdle /\ fnArg.fn = "sendResult" /\ fnArg.res.kind = "response"
     /\ ~ResOk(fnArg.res)) =>
     LET res == fnArg.res
         err == fnRet.outcome.err
         json == JsonParse(res.body)
         line == ToString(res.status) \o " " \o res.statusText
         msg == IF json.v.t = "obj" THEN Get(json.m, "msg") ELSE Undefined
         code == IF json.v.t = "obj" THEN Get(json.m, "code") ELSE Undefined
     IN /\ fnRet.outcome.state = "rejected"
        /\ IF json.ok
           THEN /\ err.message = (IF Truthy(msg) THEN msg.s ELSE line)
                /\ err.code = code
                /\ ~err.hasResponse /\ ~err.hasResponseText
           ELSE /\ err.message = line \o " " \o res.body
                /\ err.hasResponse /\ err.responseStatus = res.status
                /\ err.hasResponseText /\ err.responseText = res.body

(***************************************************************************)
(* C6: makeQueryString returns the empty string, with no leading "?", for  *)
(* an absent mapping and for an empty one; only a mapping with at least    *)
(* one key gives a result that begins with "?".                            *)
(***************************************************************************)
C6_EmptyOrAbsentGivesEmpty ==
  (fnRet # FnIdle /\ fnArg.fn = "makeQueryString") =>
     /\ (fnArg.q.t # "obj" \/ fnArg.q.m = << >>) => fnRet.str = ""
     /\ (fnRet.str # "" /\ SubSeq(fnRet.str, 1, 1) = "?") =>
          (fnArg.q.t = "obj" /\ Len(fnArg.q.m) >= 1)

ConfigOrigins == {"keyCall", "privateCall", "checkParams"}

C2_ConfigErrorBeforeAnyFetch ==
  \A i \in 1..Len(calls) :
    calls[i].outcome.err.origin \in ConfigOrigins =>
      /\ calls[i].pc = "thrown"
      /\ calls[i].reqs = << >>
      /\ calls[i].ev = << >>

\* A call that asked for the server time was refused for want of a secret,
\* and a second call was refused by checkParams or keyCall.
C2_Witness ==
  /\ \E i \in 1..Len(calls) :
       /\ calls[i].pc = "thrown"
       /\ calls[i].outcome.err.origin = "privateCall"
       /\ calls[i].hadFlag
  /\ \E i \in 1..Len(calls) :
       /\ calls[i].pc = "thrown"
       /\ calls[i].outcome.err.origin \in {"keyCall", "checkParams"}

(***************************************************************************)
(* C3: in a privateCall whose payload has useServerTime set, the request   *)
(* to /v1/time is issued and answered before the signature is computed and *)
(* before the main request is issued, and the timestamp signed and sent is *)
(* the serverTime of that answer; the local clock is never read.           *)
(***************************************************************************)
C3_ServerTimeBeforeSigning ==
  \A i \in 1..Len(calls) :
    LET c == calls[i]
        answer == JsonParse(c.timeRes.body)
        t == Get(answer.m, "serverTime")
        stamp == "timestamp=" \o t.s
        signedPairs == PairsOf(c.signed)
        sentPairs == PairsOf(QueryOf(MainOf(c).url))
        Stamped(pairs) ==
          /\ \A j \in 1..Len(pairs) :
               PairKey(pairs[j]) = "timestamp" => pairs[j] = stamp
          /\ Truthy(t) => \E j \in 1..Len(pairs) : pairs[j] = stamp
    IN (c.hadFlag /\ c.pc # "thrown") =>
         /\ ~c.clockRead
         /\ StepAt(c, "getTime") = 0
         /\ c.reqs[1].purpose = "time"
         /\ c.reqs[1].url = c.env.base \o "/" \o c.env.apiPathBase \o "/v1/time"
         /\ StepAt(c, "fetch:time") = 1
         /\ (StepAt(c, "sign") # 0 \/ HasMain(c)) =>
              /\ StepAt(c, "time:ok") = 2
              /\ StepAt(c, "sign") > 2
              /\ StepAt(c, "fetch:main") > 2
              /\ ResOk(c.timeRes) /\ answer.ok
              /\ c.timestamp = t
              /\ HasMain(c)
              /\ Stamped(signedPairs)
              /\ Stamped(sentPairs)

\* A call with useServerTime set has run to a fulfilled main request that
\* carries the server's time.
C3_Witness ==
  \E i \in 1..Len(calls) :
    /\ calls[i].hadFlag
    /\ calls[i].timestamp = Num(1800)
    /\ calls[i].pc = "settled"
    /\ calls[i].outcome.state = "fulfilled"
    /\ HasMain(calls[i])

(***************************************************************************)
(* C4: when the server-time request of a privateCall fails (the fetch is   *)
(* rejected, or the time endpoint answers with an API Error or a Transport *)
(* Error), the call fails with that error: the clock is not read, nothing  *)
(* is signed and the main request is never issued.                         *)
(***************************************************************************)
C4_TimeFailureFailsTheCall ==
  \A i \in 1..Len(calls) :
    LET c == calls[i]
    IN (c.timeRes.kind = "reject"
          \/ (c.timeRes.kind = "response" /\ ~ResOk(c.timeRes))) =>
         /\ c.pc = "settled"
         /\ c.outcome.state = "rejected"
         /\ c.outcome.err = SendResult(c.timeRes).err
         /\ ~c.clockRead
         /\ c.signed = "" /\ c.signature = ""
         /\ StepAt(c, "sign") = 0
         /\ ~HasMain(c)
         /\ Len(c.reqs) = 1

\* The time endpoint has answered a call with a proxy error page, and
\* another call with a rejected fetch or an API error.
C4_Witness ==
  /\ \E i \in 1..Len(calls) :
       /\ calls[i].timeRes.kind = "response"
       /\ calls[i].timeRes.status = 502
       /\ calls[i].outcome.err.origin = "sendResult.catch"
  /\ \E i \in 1..Len(calls) :
       calls[i].outcome.err.origin \in {"fetch", "sendResult.try"}

(***************************************************************************)
(* C8: futuresOrder with a payload that has symbol, side and quantity but  *)
(* no type and no price validates a payload that holds type 'LIMIT' and    *)
(* timeInForce 'GTC', and fails with the Configuration Error that names    *)
(* the missing price parameter, with no request issued.                    *)
(***************************************************************************)
C8_DefaultedLimitNeedsPrice ==
  \A i \in 1..Len(calls) :
    LET c == calls[i]
    IN (/\ c.method = "futuresOrder"
        /\ c.passed.t = "obj"
        /\ \A k \in {"symbol", "side", "quantity"} : Truthy(Get(c.passed.m, k))
        /\ ~Has(c.passed.m, "type")
        /\ ~Has(c.passed.m, "price")) =>
         /\ Get(c.validated.m, "type") = Str("LIMIT")
         /\ Get(c.validated.m, "timeInForce") = Str("GTC")
         /\ c.pc = "thrown"
         /\ c.outcome.err.message = RequiresMessage("futuresOrder", "price")
         /\ c.reqs = << >>

(***************************************************************************)
(* C9: calls share no mutable state.  No call modifies the payload object  *)
(* the caller passed, so each of several calls (privateCall, order,        *)
(* futuresOrder) given the same object sees the payload the caller built   *)
(* and takes its timestamp from the source that payload names, as if it    *)
(* had been issued alone.                                                  *)
(***************************************************************************)
C9_CallsShareNoState ==
  /\ payload = given
  /\ \A i \in 1..Len(calls) :
       LET c == calls[i]
       IN (c.arg = "shared"
             /\ c.method \in {"accountInfo", "order", "futuresOrder"}) =>
            /\ c.passed = Obj(given)
            /\ c.pc \in {"awaitTime", "haveTime", "awaitMain", "settled"} =>
                 c.viaServer = Truthy(Get(given, "useServerTime"))

(***************************************************************************)
(* C10: in a privateCall without the noExtra and noData flags, for every   *)
(* payload and every clock value, what is signed is what is sent: the      *)
(* query string of the request holds timestamp and signature, and without  *)
(* its signature pair it is exactly the string the HMAC was computed over. *)
(***************************************************************************)
C10_SignedIsSent ==
  \A i \in 1..Len(calls) :
    LET c == calls[i]
        pairs == PairsOf(QueryOf(MainOf(c).url))
        rest == SelectSeq(pairs, LAMBDA p : PairKey(p) # "signature")
    IN (/\ c.method \in {"accountInfo", "order", "futuresOrder"}
        /\ ~c.noExtra /\ ~c.noData
        /\ HasMain(c)) =>
         /\ \E j \in 1..Len(pairs) : PairKey(pairs[j]) = "timestamp"
         /\ \E j \in 1..Len(pairs) :
              /\ PairKey(pairs[j]) = "signature"
              /\ PercentDecode(PairValue(pairs[j]))
                   = Hmac(opts.apiSecret.s, c.signed)
         /\ Join(rest, "&") = c.signed


(***************************************************************************)
(* C11: order and futuresOrder, given a payload without type that carries  *)
(* every field a LIMIT order requires (symbol, side, quantity, and price   *)
(* for futuresOrder), pass validation and issue exactly one signed POST    *)
(* whose parameters include type=LIMIT and timeInForce=GTC; the defaulted  *)
(* type is in the payload that is validated and in the payload sent.       *)
(***************************************************************************)
C11_DefaultedLimitOrderIsSent ==
  \A i \in 1..Len(calls) :
    LET c == calls[i]
        needed == IF c.method = "futuresOrder"
                  THEN {"symbol", "side", "quantity", "price"}
                  ELSE {"symbol", "side", "quantity"}
        mains == {j \in 1..Len(c.reqs) : c.reqs[j].purpose = "main"}
        sent == PairsOf(QueryOf(MainOf(c).url))
        Sent(pair) == \E j \in 1..Len(sent) : sent[j] = pair
    IN (/\ c.method \in {"order", "futuresOrder"}
        /\ Truthy(opts.apiKey) /\ Truthy(opts.apiSecret)
        /\ c.passed.t = "obj"
        /\ ~Has(c.passed.m, "type")
        /\ \A k \in needed : Truthy(Get(c.passed.m, k))) =>
         /\ c.pc # "thrown"
         /\ Get(c.validated.m, "type") = Str("LIMIT")
         /\ Get(c.validated.m, "timeInForce") = Str("GTC")
         /\ Cardinality(mains) <= 1
         /\ c.pc \in {"awaitMain", "settled"} => HasMain(c)
         /\ HasMain(c) =>
              /\ MainOf(c).verb = "POST"
              /\ Sent("type=LIMIT")
              /\ Sent("timeInForce=GTC")
              /\ \E j \in 1..Len(sent) :
                   sent[j] = "signature="
                     \o EncodeURIComponent(Hmac(opts.apiSecret.s, c.signed))

=============================================================================
